---------------------------- MODULE Spec2Model ----------------------------
(***************************************************************************)
(* clickable_img: opacity mask (Pixels2D), layered spatial index           *)
(* (LayeredRect / BitImg), image serializer (img_converter) and the        *)
(* cached SVG loader (SvgLoader).                                          *)
(*                                                                         *)
(* Rects hold integer coordinates (the f32 values of the program are whole *)
(* numbers far below 2^24, where f32 arithmetic is exact).  A Color32 is   *)
(* the tuple <<r, g, b, a>> of its four stored bytes.                      *)
(***************************************************************************)
EXTENDS Integers, Sequences, FiniteSets, TLC

VARIABLES
    img,        \* the ColorImage at hand: [size |-> <<w, h>>, pixels |-> Seq]
    bit_img,    \* the BitImg built from img (Img::from_img), or None
    bin,        \* the byte buffer produced by img_to_u8 (or a cache file), or None
    loader,     \* the SvgLoader: [scale, cache], or None
    store,      \* the cache directory: [exists, files]
    last        \* the last operation: [op, arg, ret]

vars == <<img, bit_img, bin, loader, store, last>>

\* Option: None is the empty tuple, Some(x) the tuple holding x
None == <<>>
Some(x) == <<x>>

(***************************************************************************)
(* Bounds of the model.                                                    *)
(***************************************************************************)
\* largest image width and height of the index specification
MaxW == 4
MaxH == 4
\* largest number of pixels, and largest small width or height, of an image
\* of the serializer specification
MaxSerPixels == 2
MaxSerDim == 2
\* a width or height of more than one byte, for images without pixels
BigDim == 258

Max(a, b) == IF a < b THEN b ELSE a
Min(a, b) == IF a < b THEN a ELSE b

(***************************************************************************)
(* egui geometry, as the crate uses it.                                    *)
(***************************************************************************)
\* f32::INFINITY, the coordinates of Rect::NOTHING
INFINITY == 1000000

NOTHING == [min |-> <<INFINITY, INFINITY>>, max |-> <<-INFINITY, -INFINITY>>]

\* Rect::from_min_size(Pos2::new(x, y), Vec2::new(w, h))
from_min_size(x, y, w, h) == [min |-> <<x, y>>, max |-> <<x + w, y + h>>]

width(r) == r.max[1] - r.min[1]
height(r) == r.max[2] - r.min[2]

\* Rect::intersect: the larger of the mins, the smaller of the maxes
intersect(a, b) ==
    [min |-> <<Max(a.min[1], b.min[1]), Max(a.min[2], b.min[2])>>,
     max |-> <<Min(a.max[1], b.max[1]), Min(a.max[2], b.max[2])>>]

\* Rect::intersects: closed intervals, touching rects intersect
intersects(a, b) ==
    /\ a.min[1] <= b.max[1] /\ b.min[1] <= a.max[1]
    /\ a.min[2] <= b.max[2] /\ b.min[2] <= a.max[2]

\* Rect::contains(Pos2), closed on both sides
contains(r, p) ==
    /\ r.min[1] <= p[1] /\ p[1] <= r.max[1]
    /\ r.min[2] <= p[2] /\ p[2] <= r.max[2]

\* Rect::contains_rect
contains_rect(a, b) == contains(a, b.min) /\ contains(a, b.max)

\* `f as usize`: a float to integer cast saturates, a negative value gives 0
as_usize(v) == IF v < 0 THEN 0 ELSE v

(***************************************************************************)
(* Colours.                                                                *)
(***************************************************************************)
TRANSPARENT == <<0, 0, 0, 0>>
BLACK == <<0, 0, 0, 255>>
RED == <<255, 0, 0, 255>>
\* an additive colour: alpha 0 and a non-zero channel
ADDITIVE == <<1, 0, 0, 0>>

OpaqueColors == <<BLACK, ADDITIVE, RED>>

\* ColorImage index: img[(x, y)] is pixels[y * width + x]
img_at(image, x, y) == image.pixels[y * image.size[1] + x + 1]

(***************************************************************************)
(* Pixels2D                                                                *)
(***************************************************************************)
Pixels2D_new(bits, rect) == [bits |-> bits, rect |-> rect]

pixel_at(p, x, y) == (x + y * as_usize(width(p.rect))) \in p.bits

\* the pairs (x, y) the two nested loops of pixel_count and contains_pixel visit
scan(start_x, start_y, w, h) ==
    (start_x .. (start_x + w - 1)) \X (start_y .. (start_y + h - 1))

pixel_count(p, rect) ==
    LET start_x == as_usize(rect.min[1])
        start_y == as_usize(rect.min[2])
        w == as_usize(width(rect))
        h == as_usize(height(rect))
    IN Cardinality({q \in scan(start_x, start_y, w, h) : pixel_at(p, q[1], q[2])})

\* the mutant: the scan covers the rect as given, without clipping
Pixels2D_contains_pixel_unclipped(p, rect) ==
    LET start_x == as_usize(rect.min[1])
        start_y == as_usize(rect.min[2])
        w == as_usize(width(rect))
        h == as_usize(height(rect))
    IN \E q \in scan(start_x, start_y, w, h) : pixel_at(p, q[1], q[2])

Pixels2D_contains_pixel(p, rect) ==
    LET covered_both == intersect(rect, p.rect)
        start_x == as_usize(covered_both.min[1])
        start_y == as_usize(covered_both.min[2])
        w == as_usize(width(covered_both))
        h == as_usize(height(covered_both))
    IN IF covered_both = NOTHING
       THEN FALSE
       ELSE \E q \in scan(start_x, start_y, w, h) : pixel_at(p, q[1], q[2])

\* the positions Pixels2D::contains_pixel hands to pixel_at: the loops go
\* through the clipped rect row by row, and return at the first set pixel
contains_pixel_reads(p, rect) ==
    LET covered_both == intersect(rect, p.rect)
        start_x == as_usize(covered_both.min[1])
        start_y == as_usize(covered_both.min[2])
        w == as_usize(width(covered_both))
        h == as_usize(height(covered_both))
        at(k) == <<start_x + (k % w), start_y + (k \div w)>>
        found == { k \in 0 .. (w * h - 1) : pixel_at(p, at(k)[1], at(k)[2]) }
        stop == IF found = {} THEN w * h - 1
                ELSE CHOOSE k \in found : \A j \in found : k <= j
    IN IF covered_both = NOTHING \/ w * h = 0
       THEN {}
       ELSE { at(k) : k \in 0 .. stop }

(***************************************************************************)
(* LayeredRect                                                             *)
(***************************************************************************)
\* the mutant: the right half starts one pixel late
split_horizontal_gap(rect) ==
    LET split_at == as_usize(width(rect)) \div 2
    IN << from_min_size(rect.min[1], rect.min[2], split_at, height(rect)),
          from_min_size(rect.min[1] + split_at + 1, rect.min[2],
                        width(rect) - split_at - 1, height(rect)) >>

split_horizontal(rect) ==
    LET split_at == as_usize(width(rect)) \div 2
    IN << from_min_size(rect.min[1], rect.min[2], split_at, height(rect)),
          from_min_size(rect.min[1] + split_at, rect.min[2],
                        width(rect) - split_at, height(rect)) >>

split_vertical(rect) ==
    LET split_at == as_usize(height(rect)) \div 2
    IN << from_min_size(rect.min[1], rect.min[2], width(rect), split_at),
          from_min_size(rect.min[1], rect.min[2] + split_at,
                        width(rect), height(rect) - split_at) >>

MIN_NODE_SIZE == 3

Leaf(rect, cnt) == [kind |-> "Leaf", rect |-> rect, pixel_count |-> cnt]

\* the mutant: a node keeps the count of its first child only
Node_first_child_count(rect, l0, l1) ==
    [kind |-> "Node", rect |-> rect, children |-> <<l0, l1>>,
     pixel_count |-> l0.pixel_count]

Node(rect, l0, l1) ==
    [kind |-> "Node", rect |-> rect, children |-> <<l0, l1>>,
     pixel_count |-> l0.pixel_count + l1.pixel_count]

\* the mutant: the height is looked at before the width
RECURSIVE LayeredRect_new_vertical_first(_, _)
LayeredRect_new_vertical_first(rect, p) ==
    IF MIN_NODE_SIZE < height(rect)
    THEN LET b == split_vertical(rect)
         IN Node(rect, LayeredRect_new_vertical_first(b[1], p),
                       LayeredRect_new_vertical_first(b[2], p))
    ELSE IF MIN_NODE_SIZE < width(rect)
    THEN LET b == split_horizontal(rect)
         IN Node(rect, LayeredRect_new_vertical_first(b[1], p),
                       LayeredRect_new_vertical_first(b[2], p))
    ELSE Leaf(rect, pixel_count(p, rect))

RECURSIVE LayeredRect_new(_, _)
LayeredRect_new(rect, p) ==
    IF MIN_NODE_SIZE < width(rect)
    THEN LET b == split_horizontal(rect)
         IN Node(rect, LayeredRect_new(b[1], p), LayeredRect_new(b[2], p))
    ELSE IF MIN_NODE_SIZE < height(rect)
    THEN LET b == split_vertical(rect)
         IN Node(rect, LayeredRect_new(b[1], p), LayeredRect_new(b[2], p))
    ELSE Leaf(rect, pixel_count(p, rect))

(***************************************************************************)
(* BitImg                                                                  *)
(***************************************************************************)
BitImg_new(p) == [pixels |-> p, layered_rect |-> LayeredRect_new(p.rect, p)]

is_opaque_at(b, x, y) == pixel_at(b.pixels, x, y)

\* the mutant: a node that intersects the target answers true without a look
\* at the target's share of it
contains_pixel_in_layer_eager(b, target_rect, layered) ==
    IF layered.pixel_count = 0 THEN FALSE
    ELSE intersects(layered.rect, target_rect)

RECURSIVE contains_pixel_in_layer(_, _, _)
contains_pixel_in_layer(b, target_rect, layered) ==
    IF layered.kind = "Leaf"
    THEN IF layered.pixel_count = 0 THEN FALSE
         ELSE IF ~ intersects(layered.rect, target_rect) THEN FALSE
         ELSE IF contains_rect(target_rect, layered.rect) /\ layered.pixel_count # 0
         THEN TRUE
         ELSE Pixels2D_contains_pixel(b.pixels, target_rect)
    ELSE IF layered.pixel_count = 0 THEN FALSE
         ELSE IF ~ intersects(layered.rect, target_rect) THEN FALSE
         ELSE IF contains_rect(target_rect, layered.rect) /\ layered.pixel_count # 0
         THEN TRUE
         ELSE IF contains_pixel_in_layer(b, target_rect, layered.children[1])
         THEN TRUE
         ELSE IF contains_pixel_in_layer(b, target_rect, layered.children[2])
         THEN TRUE
         ELSE FALSE

\* the calls of Pixels2D::contains_pixel the descent makes, each with the
\* rect of the Leaf whose arm makes it and the positions the call reads; a
\* Node goes to its second child only when the first answered false
RECURSIVE leaf_scans(_, _, _)
leaf_scans(b, target_rect, layered) ==
    IF layered.pixel_count = 0 THEN {}
    ELSE IF ~ intersects(layered.rect, target_rect) THEN {}
    ELSE IF contains_rect(target_rect, layered.rect) /\ layered.pixel_count # 0
    THEN {}
    ELSE IF layered.kind = "Leaf"
    THEN { [leaf |-> layered.rect,
            reads |-> contains_pixel_reads(b.pixels, target_rect)] }
    ELSE IF contains_pixel_in_layer(b, target_rect, layered.children[1])
    THEN leaf_scans(b, target_rect, layered.children[1])
    ELSE leaf_scans(b, target_rect, layered.children[1])
         \cup leaf_scans(b, target_rect, layered.children[2])

\* the scans of one BitImg::contains_pixel(rect)
BitImg_contains_pixel_scans(b, rect) ==
    LET covered_both == intersect(rect, b.pixels.rect)
    IN IF covered_both = NOTHING
       THEN {}
       ELSE leaf_scans(b, covered_both, b.layered_rect)

BitImg_contains_pixel(b, rect) ==
    LET covered_both == intersect(rect, b.pixels.rect)
    IN IF covered_both = NOTHING
       THEN FALSE
       ELSE contains_pixel_in_layer(b, covered_both, b.layered_rect)

(***************************************************************************)
(* to_bitset and Img::from_img                                             *)
(***************************************************************************)
\* the mutant: a pixel counts as opaque when its alpha byte is not zero
to_bitset_alpha_only(image) ==
    LET w == image.size[1]
        h == image.size[2]
    IN { w * q[2] + q[1] : q \in { q \in (0 .. (w - 1)) \X (0 .. (h - 1)) :
                                   img_at(image, q[1], q[2])[4] # 0 } }

to_bitset(image) ==
    LET w == image.size[1]
        h == image.size[2]
    IN { w * q[2] + q[1] : q \in { q \in (0 .. (w - 1)) \X (0 .. (h - 1)) :
                                   img_at(image, q[1], q[2]) # TRANSPARENT } }

\* Img::from_img: the mask over the rect at the origin with the image's size,
\* and the layered index over it
from_img(image) ==
    BitImg_new(Pixels2D_new(to_bitset(image),
                            from_min_size(0, 0, image.size[1], image.size[2])))

(***************************************************************************)
(* img_converter                                                           *)
(***************************************************************************)
\* size_of::<usize>() of a 64-bit target
USIZE_BYTE_LEN == 8
\* Color32::BLACK.to_array().len()
COLOR_BYTE_LEN == 4

Ok(v) == [kind |-> "Ok", val |-> v]
\* an index or slice range out of bounds: the thread panics
Panic == [kind |-> "Panic", val |-> None]

\* the n low bytes of v, the lowest first
RECURSIVE le_bytes(_, _)
le_bytes(v, n) == IF n = 0 THEN <<>> ELSE <<v % 256>> \o le_bytes(v \div 256, n - 1)

\* usize::to_ne_bytes on a little-endian target
to_ne_bytes(v) == le_bytes(v, USIZE_BYTE_LEN)

\* usize::from_ne_bytes on a little-endian target
RECURSIVE from_ne_bytes(_)
from_ne_bytes(b) ==
    IF b = <<>> THEN 0 ELSE b[1] + 256 * from_ne_bytes(Tail(b))

\* Color32::to_array: the four stored bytes
to_array(c) == c

\* Color32::from_rgba_premultiplied: stores the four bytes as given
from_rgba_premultiplied(r, g, b, a) == <<r, g, b, a>>

zeros(n) == [i \in 1 .. n |-> 0]

\* the bytes the loop over img.pixels writes
pixel_bytes(pixels) ==
    [k \in 1 .. (Len(pixels) * COLOR_BYTE_LEN) |->
        to_array(pixels[((k - 1) \div COLOR_BYTE_LEN) + 1])[((k - 1) % COLOR_BYTE_LEN) + 1]]

\* the mutant: the height is written before the width
img_to_u8_height_first(image) ==
    LET w == image.size[1]
        h == image.size[2]
    IN IF Len(image.pixels) > w * h
       THEN Panic
       ELSE Ok(to_ne_bytes(h) \o to_ne_bytes(w) \o pixel_bytes(image.pixels)
               \o zeros((w * h - Len(image.pixels)) * COLOR_BYTE_LEN))

\* img_to_u8: a zeroed vector of 2 * USIZE_BYTE_LEN + width * height *
\* COLOR_BYTE_LEN bytes, filled with the width, the height and the pixels; a
\* pixel past width * height is copied to a range past the vector's end
img_to_u8(image) ==
    LET w == image.size[1]
        h == image.size[2]
    IN IF Len(image.pixels) > w * h
       THEN Panic
       ELSE Ok(to_ne_bytes(w) \o to_ne_bytes(h) \o pixel_bytes(image.pixels)
               \o zeros((w * h - Len(image.pixels)) * COLOR_BYTE_LEN))

\* the pixels u8_to_img reads behind the two header integers
read_pixels(b, n_pixels) ==
    [i \in 1 .. n_pixels |->
        LET idx == 2 * USIZE_BYTE_LEN + (i - 1) * COLOR_BYTE_LEN
        IN from_rgba_premultiplied(b[idx + 1], b[idx + 2], b[idx + 3], b[idx + 4])]

\* u8_to_img: every slice bin[idx..(idx + n)] is bounds-checked by the
\* language, and a range past the end of bin panics
u8_to_img(b) ==
    IF Len(b) < USIZE_BYTE_LEN THEN Panic
    ELSE IF Len(b) < 2 * USIZE_BYTE_LEN THEN Panic
    ELSE LET w == from_ne_bytes(SubSeq(b, 1, USIZE_BYTE_LEN))
             h == from_ne_bytes(SubSeq(b, USIZE_BYTE_LEN + 1, 2 * USIZE_BYTE_LEN))
             n_pixels == w * h
         IN IF Len(b) < 2 * USIZE_BYTE_LEN + n_pixels * COLOR_BYTE_LEN
            THEN Panic
            ELSE Ok([size |-> <<w, h>>, pixels |-> read_pixels(b, n_pixels)])

(***************************************************************************)
(* The images and rects the index specification draws from.                *)
(***************************************************************************)
\* the image of size w x h whose non-transparent pixels are at the indices of S
ImageOf(w, h, S) ==
    [size |-> <<w, h>>,
     pixels |-> [i \in 1 .. (w * h) |->
                    IF (i - 1) \in S THEN OpaqueColors[((i - 1) % 3) + 1]
                    ELSE TRANSPARENT]]

\* the sparse and the dense masks over the indices of N: none or one pixel
\* set, and all or all but one pixel set
Masks(N) == {{}, N} \cup { {i} : i \in N } \cup { N \ {i} : i \in N }

\* the mask of tests::small_bitimg_becomes_leaf, as an image:
\*   O__
\*   __O
\*   OOO
LeafTestImage == ImageOf(3, 3, {0, 5, 6, 7, 8})

IndexImages ==
    UNION { { ImageOf(w, h, S) : S \in Masks(0 .. (w * h - 1)) } :
            w \in 0 .. MaxW, h \in 0 .. MaxH }
    \cup { LeafTestImage }

\* every rect of non-negative size with integer corners at most one pixel
\* outside the image: zero-area rects, rects partly or wholly out of bounds
\* and rects covering the whole image are among them
QueryRects(image) ==
    LET xs == -1 .. (image.size[1] + 1)
        ys == -1 .. (image.size[2] + 1)
    IN { r \in { [min |-> <<x0, y0>>, max |-> <<x1, y1>>] :
                    x0 \in xs, y0 \in ys, x1 \in xs, y1 \in ys } :
           width(r) >= 0 /\ height(r) >= 0 }

\* the rects handed to the split functions: an origin left of, at or right of
\* zero and every size up to one pixel more than the image's
SplitRects(image) ==
    { from_min_size(x, y, w, h) :
        x \in -1 .. 1, y \in -1 .. 1,
        w \in 0 .. (image.size[1] + 1), h \in 0 .. (image.size[2] + 1) }

(***************************************************************************)
(* The index specification: an image is turned into an Img (its mask and   *)
(* its layered index), which callers then query.  The queries are pure: a  *)
(* call leaves its result in `last`, and the caller takes it (Return).     *)
(***************************************************************************)
NoStore == [exists |-> FALSE, files |-> {}]
Idle == [op |-> "idle", arg |-> None, ret |-> None]

Init ==
    /\ img \in IndexImages
    /\ bit_img = None
    /\ bin = None
    /\ loader = None
    /\ store = NoStore
    /\ last = Idle

\* Img::from_img
FromImg ==
    /\ bit_img = None
    /\ bit_img' = Some(from_img(img))
    /\ last' = Idle
    /\ UNCHANGED <<img, bin, loader, store>>

\* Img::is_opaque_at(x, y), for a pixel of the image
IsOpaqueAt ==
    /\ bit_img # None /\ last = Idle
    /\ \E x \in 0 .. (img.size[1] - 1), y \in 0 .. (img.size[2] - 1) :
          last' = [op |-> "is_opaque_at", arg |-> <<x, y>>,
                   ret |-> is_opaque_at(bit_img[1], x, y)]
    /\ UNCHANGED <<img, bit_img, bin, loader, store>>

\* Img::contains_pixel(rect), the query on the layered index; `last` keeps,
\* beside the result, the mask scans the descent made
ContainsPixel ==
    /\ bit_img # None /\ last = Idle
    /\ \E rect \in QueryRects(img) :
          last' = [op |-> "BitImg::contains_pixel", arg |-> rect,
                   ret |-> BitImg_contains_pixel(bit_img[1], rect),
                   scans |-> BitImg_contains_pixel_scans(bit_img[1], rect)]
    /\ UNCHANGED <<img, bit_img, bin, loader, store>>

\* Pixels2D::contains_pixel(rect), the scan of the mask
MaskContainsPixel ==
    /\ bit_img # None /\ last = Idle
    /\ \E rect \in QueryRects(img) :
          last' = [op |-> "Pixels2D::contains_pixel", arg |-> rect,
                   ret |-> Pixels2D_contains_pixel(bit_img[1].pixels, rect)]
    /\ UNCHANGED <<img, bit_img, bin, loader, store>>

\* Pixels2D::pixel_count(rect)
PixelCount ==
    /\ bit_img # None /\ last = Idle
    /\ \E rect \in QueryRects(img) :
          last' = [op |-> "pixel_count", arg |-> rect,
                   ret |-> pixel_count(bit_img[1].pixels, rect)]
    /\ UNCHANGED <<img, bit_img, bin, loader, store>>

\* split_horizontal(rect), a free function of the crate
SplitHorizontal ==
    /\ last = Idle
    /\ \E rect \in SplitRects(img) :
          last' = [op |-> "split_horizontal", arg |-> rect,
                   ret |-> split_horizontal(rect)]
    /\ UNCHANGED <<img, bit_img, bin, loader, store>>

\* split_vertical(rect), a free function of the crate
SplitVertical ==
    /\ last = Idle
    /\ \E rect \in SplitRects(img) :
          last' = [op |-> "split_vertical", arg |-> rect,
                   ret |-> split_vertical(rect)]
    /\ UNCHANGED <<img, bit_img, bin, loader, store>>

\* the caller takes the result of a query
Return ==
    /\ last # Idle
    /\ last' = Idle
    /\ UNCHANGED <<img, bit_img, bin, loader, store>>

Next ==
    \/ FromImg
    \/ IsOpaqueAt
    \/ ContainsPixel
    \/ MaskContainsPixel
    \/ PixelCount
    \/ SplitHorizontal
    \/ SplitVertical
    \/ Return

Spec == Init /\ [][Next]_vars

(***************************************************************************)
(* The serializer specification: an image is encoded, the buffer may come  *)
(* back cut short (a cache file that was not written to its end), and is   *)
(* decoded.                                                                *)
(***************************************************************************)
\* a colour of four different bytes
MIXED == <<1, 2, 3, 4>>

SerColors == {TRANSPARENT, RED, MIXED}

SerSizes ==
    { d \in (0 .. MaxSerDim) \X (0 .. MaxSerDim) : d[1] * d[2] <= MaxSerPixels }
    \cup { <<BigDim, 0>>, <<0, BigDim>>, <<MaxSerPixels, 1>>, <<1, MaxSerPixels>> }

\* the images of these sizes, with width * height pixels and, for the sizes
\* of one pixel, with a pixel missing or a pixel too many
SerImages ==
    UNION { { [size |-> d, pixels |-> px] : px \in [1 .. (d[1] * d[2]) -> SerColors] } :
            d \in SerSizes }
    \cup { [size |-> <<1, 1>>, pixels |-> <<>>],
           [size |-> <<1, 1>>, pixels |-> <<RED, MIXED>>] }

ValidImage(image) == Len(image.pixels) = image.size[1] * image.size[2]

InitSer ==
    /\ img \in SerImages
    /\ bit_img = None
    /\ bin = None
    /\ loader = None
    /\ store = NoStore
    /\ last = Idle

\* img_to_u8(&img)
ImgToU8 ==
    /\ bin = None /\ last = Idle
    /\ LET r == img_to_u8(img)
       IN /\ bin' = IF r.kind = "Ok" THEN Some(r.val) ELSE None
          /\ last' = [op |-> "img_to_u8", arg |-> img, ret |-> r]
    /\ UNCHANGED <<img, bit_img, loader, store>>

\* the buffer loses its tail
Truncate ==
    /\ bin # None /\ last.op = "img_to_u8"
    /\ \E n \in 0 .. (Len(bin[1]) - 1) :
          bin' = Some(SubSeq(bin[1], 1, n))
    /\ last' = [op |-> "truncate", arg |-> None, ret |-> None]
    /\ UNCHANGED <<img, bit_img, loader, store>>

\* u8_to_img(&bin)
U8ToImg ==
    /\ bin # None /\ last.op \in {"img_to_u8", "truncate"}
    /\ last' = [op |-> "u8_to_img", arg |-> bin[1], ret |-> u8_to_img(bin[1])]
    /\ UNCHANGED <<img, bit_img, bin, loader, store>>

NextSer ==
    \/ ImgToU8
    \/ Truncate
    \/ U8ToImg

SpecSer == InitSer /\ [][NextSer]_vars

(***************************************************************************)
(* SvgLoader and load_svg_bytes.                                           *)
(*                                                                         *)
(* The SVG parser and renderer (usvg, resvg) are outside the crate.  A     *)
(* document stands in for an SVG file: three bytes <<width, height, fill>> *)
(* parse, anything else does not; rendering fills the scaled canvas with   *)
(* the RGBA bytes the fill names.  What the model keeps of them is what    *)
(* load_svg_bytes relies on: the outcome is a function of the bytes and    *)
(* the scale.                                                              *)
(***************************************************************************)
Err(e) == [kind |-> "Err", val |-> e]

\* usvg::Tree::from_data
from_data(svg_bytes) ==
    IF Len(svg_bytes) = 3
    THEN Ok([width |-> svg_bytes[1], height |-> svg_bytes[2], fill |-> svg_bytes[3]])
    ELSE Err("CannotParse")

\* the RGBA bytes of the pixmap's pixels after resvg::render
pixmap_data(tree) == IF tree.fill = 1 THEN <<255, 0, 0, 255>> ELSE <<0, 0, 255, 0>>

\* Color32::from_rgba_unmultiplied, for an alpha of 255 or 0
from_rgba_unmultiplied(c) == IF c[4] = 255 THEN c ELSE TRANSPARENT

load_svg_bytes(svg_bytes, scale) ==
    LET usvg_tree == from_data(svg_bytes)
    IN IF usvg_tree.kind # "Ok"
       THEN usvg_tree
       ELSE LET w == usvg_tree.val.width * scale
                h == usvg_tree.val.height * scale
            IN IF w = 0 \/ h = 0
               THEN Err("CannotLoad")
               ELSE Ok([size |-> <<w, h>>,
                        pixels |-> [i \in 1 .. (w * h) |->
                                      from_rgba_unmultiplied(pixmap_data(usvg_tree.val))]])

\* f32::to_ne_bytes of the scales 1.0 and 2.0 on a little-endian target
scale_to_ne_bytes(scale) == IF scale = 1 THEN <<0, 0, 128, 63>> ELSE <<0, 0, 0, 64>>

\* the mutant: the scale is not hashed
hex_str_without_scale(scale, svg_bytes) == svg_bytes

\* the file name of the cache entry: the digest of the scale's bytes
\* followed by the document's bytes.  The digest is kept as the bytes it
\* is computed from, two inputs that differ give two names.
hex_str(scale, svg_bytes) == scale_to_ne_bytes(scale) \o svg_bytes

\* the to_binary closure of SvgLoader::new
to_binary(result) ==
    IF result.kind = "Ok" THEN Some(img_to_u8(result.val).val) ELSE None

\* the from_binary closure of SvgLoader::new: Ok(u8_to_img(bin))
from_binary(b) == u8_to_img(b)

(***************************************************************************)
(* LocalFileCache, a crate of its own: one directory of files.  Modelled   *)
(* from how the crate is used and from the store's contract: get the       *)
(* entry or compute, store and return it; removal of the directory.        *)
(***************************************************************************)
HasEntry(st, fname) == \E f \in st.files : f.name = fname
Entry(st, fname) == (CHOOSE f \in st.files : f.name = fname).data

\* LocalFileCache::or_insert_with(fname, f): the value, the store after the
\* call and whether f was called
or_insert_with(st, fname, computed) ==
    IF HasEntry(st, fname)
    THEN [val |-> Ok(from_binary(Entry(st, fname))), store |-> st, called |-> FALSE]
    ELSE LET b == to_binary(computed)
         IN [val |-> Ok(computed),
             store |-> IF b = None THEN st
                       ELSE [exists |-> TRUE,
                             files |-> st.files \cup {[name |-> fname, data |-> b[1]]}],
             called |-> TRUE]

\* LocalFileCache::invalidate(sub_dir): the directory and its files are
\* removed; an io error of kind NotFound when there is no directory
cache_invalidate(st) ==
    IF st.exists
    THEN [val |-> Ok(None), store |-> [exists |-> FALSE, files |-> {}]]
    ELSE [val |-> Err("NotFound"), store |-> st]

\* SvgLoader::load: the result, the store after the call and whether the
\* document was rendered
load(l, st, svg_bytes) ==
    IF l.cache
    THEN LET r == or_insert_with(st, hex_str(l.scale, svg_bytes),
                                 load_svg_bytes(svg_bytes, l.scale))
         IN [ret |-> IF r.val.kind = "Ok" THEN r.val.val ELSE Err("Other"),
             store |-> r.store, called |-> r.called]
    ELSE [ret |-> load_svg_bytes(svg_bytes, l.scale), store |-> st, called |-> TRUE]

\* the mutant: every error of the removal is fatal
invalidate_or_panic_strict(r) == IF r.val.kind = "Err" THEN Panic ELSE Ok(None)

\* the caller of invalidate: an error of kind NotFound is let pass, any
\* other error panics
invalidate_or_panic(r) ==
    IF r.val.kind = "Err" /\ r.val.val # "NotFound" THEN Panic ELSE Ok(None)

(***************************************************************************)
(* The cache specification: loaders are made, documents are loaded and     *)
(* the cache directory is invalidated, in any order.                       *)
(***************************************************************************)
Scales == {1, 2}

Documents == { <<1, 1, 1>>, <<2, 1, 1>>, <<1, 2, 2>>, <<0, 1, 1>>, <<9>> }

InitCache ==
    /\ img = [size |-> <<0, 0>>, pixels |-> <<>>]
    /\ bit_img = None
    /\ bin = None
    /\ loader = None
    /\ store = NoStore
    /\ last = Idle

\* SvgLoader::new(scale, cache_dir): with a cache_dir the loader holds a
\* LocalFileCache on the directory
NewLoader ==
    /\ \E scale \in Scales, cache \in BOOLEAN :
          /\ loader' = Some([scale |-> scale, cache |-> cache])
          /\ store' = IF cache THEN [store EXCEPT !.exists = TRUE] ELSE store
    /\ UNCHANGED <<img, bit_img, bin, last>>

\* loader.load(svg_bytes).  `last` keeps, beside the result: whether the
\* document was rendered, the names of the files an invalidation right
\* before the call removed, and the result of a load of the same document
\* at the same scale right before the call.
Load ==
    /\ loader # None
    /\ \E svg_bytes \in Documents :
          LET l == loader[1]
              r == load(l, store, svg_bytes)
              fname == hex_str(l.scale, svg_bytes)
          IN /\ store' = r.store
             /\ last' = [op |-> "load",
                         arg |-> [svg_bytes |-> svg_bytes, scale |-> l.scale,
                                  cache |-> l.cache, fname |-> fname,
                                  removed |-> IF last.op = "invalidate"
                                              THEN last.arg.removed ELSE {},
                                  before |-> IF /\ last.op = "load"
                                                /\ last.arg.fname = fname
                                                /\ last.arg.cache = l.cache
                                             THEN Some(last.ret.val) ELSE None],
                         ret |-> [val |-> r.ret, called |-> r.called]]
    /\ UNCHANGED <<img, bit_img, bin, loader>>

\* LocalFileCache::invalidate(dir), its NotFound error let pass
Invalidate ==
    /\ LET r == cache_invalidate(store)
       IN /\ store' = r.store
          /\ last' = [op |-> "invalidate",
                      arg |-> [existed |-> store.exists,
                               removed |-> { f.name : f \in store.files }],
                      ret |-> invalidate_or_panic(r)]
    /\ UNCHANGED <<img, bit_img, bin, loader>>

NextCache ==
    \/ NewLoader
    \/ Load
    \/ Invalidate

SpecCache == InitCache /\ [][NextCache]_vars

(***************************************************************************)
(* What the claims speak of, stated without the program's loops.           *)
(***************************************************************************)
\* the pixels (x, y) a rect covers: min <= (x, y) < max
Cells(r) == (r.min[1] .. (r.max[1] - 1)) \X (r.min[2] .. (r.max[2] - 1))

\* the pixels of the mask whose bit is set
MaskOpaqueCells(p) ==
    { q \in Cells(p.rect) : (q[2] * width(p.rect) + q[1]) \in p.bits }

\* the set pixels of the mask inside rect
OpaqueIn(p, rect) == Cells(rect) \cap MaskOpaqueCells(p)

TheMask == bit_img[1].pixels
TheTree == bit_img[1].layered_rect

(***************************************************************************)
(* C1  Query equivalence: BitImg::contains_pixel(rect), the query on the   *)
(* layered index, returns what the scan Pixels2D::contains_pixel returns   *)
(* for rect intersected with the mask's bounds, for every query rect.      *)
(***************************************************************************)
C1_QueryEquivalence ==
    last.op = "BitImg::contains_pixel" =>
        last.ret = Pixels2D_contains_pixel(TheMask, intersect(last.arg, TheMask.rect))

\* a query partly out of bounds that does not cover the root, on a tree with
\* inner nodes, answered true
C1_Witness ==
    /\ last.op = "BitImg::contains_pixel"
    /\ last.ret = TRUE
    /\ TheTree.kind = "Node"
    /\ last.arg.min[1] < 0
    /\ ~ contains_rect(last.arg, TheTree.rect)

(***************************************************************************)
(* C2  Count invariant: in the tree LayeredRect::new builds, the root's    *)
(* pixel_count is the number of set mask pixels in the root rect, every    *)
(* Node's pixel_count is the sum of its children's, and every Leaf's       *)
(* pixel_count is the number of set mask pixels in the leaf's rect.        *)
(***************************************************************************)
RECURSIVE CountsHold(_, _)
CountsHold(t, p) ==
    IF t.kind = "Leaf"
    THEN t.pixel_count = Cardinality(OpaqueIn(p, t.rect))
    ELSE /\ t.pixel_count = t.children[1].pixel_count + t.children[2].pixel_count
         /\ CountsHold(t.children[1], p)
         /\ CountsHold(t.children[2], p)

C2_CountInvariant ==
    bit_img # None =>
        /\ TheTree.pixel_count = Cardinality(OpaqueIn(TheMask, TheTree.rect))
        /\ CountsHold(TheTree, TheMask)

\* a tree of depth two whose halves both hold set pixels
C2_Witness ==
    /\ bit_img # None
    /\ TheTree.kind = "Node"
    /\ TheTree.children[1].kind = "Node"
    /\ TheTree.children[1].pixel_count > 1
    /\ TheTree.children[2].pixel_count > 1

(***************************************************************************)
(* C7  Mask correctness: is_opaque_at(x, y), for a pixel (x, y) of the     *)
(* image, is true exactly when that pixel is not Color32::TRANSPARENT.     *)
(***************************************************************************)
C7_MaskCorrectness ==
    last.op = "is_opaque_at" =>
        last.ret = (img_at(img, last.arg[1], last.arg[2]) # TRANSPARENT)

\* an opaque answer for a pixel with alpha 0, off the first row and column
C7_Witness ==
    /\ last.op = "is_opaque_at"
    /\ last.ret = TRUE
    /\ last.arg[1] > 0 /\ last.arg[2] > 0
    /\ img_at(img, last.arg[1], last.arg[2]) = ADDITIVE

(***************************************************************************)
(* C8  Mask rectangle test with clipping: Pixels2D::contains_pixel(rect)   *)
(* is true exactly when a set pixel lies in rect intersected with the      *)
(* mask's bounds.                                                          *)
(***************************************************************************)
C8_MaskRectTest ==
    last.op = "Pixels2D::contains_pixel" =>
        last.ret = (OpaqueIn(TheMask, intersect(last.arg, TheMask.rect)) # {})

\* a rect reaching past the right edge, answered false, where the bit of a
\* position right of the edge is the set bit of a pixel of the next row
C8_Witness ==
    /\ last.op = "Pixels2D::contains_pixel"
    /\ last.ret = FALSE
    /\ last.arg.max[1] > TheMask.rect.max[1]
    /\ \E y \in Max(0, last.arg.min[2]) .. (last.arg.max[2] - 1) :
          (y * width(TheMask.rect) + width(TheMask.rect)) \in TheMask.bits

(***************************************************************************)
(* C9  countInRect clips to bounds: Pixels2D::pixel_count(rect) is the     *)
(* number of set pixels in rect intersected with the mask's bounds.        *)
(***************************************************************************)
C9_CountClipsToBounds ==
    last.op = "pixel_count" =>
        last.ret = Cardinality(OpaqueIn(TheMask, intersect(last.arg, TheMask.rect)))

(***************************************************************************)
(* C10  Exact partition by split: split_horizontal returns the left rect   *)
(* at the same origin of width floor(width / 2) and the right rect at      *)
(* origin.x + floor(width / 2) of the remaining width, both of full        *)
(* height, split_vertical likewise on the height; and in every built tree  *)
(* the pixels of a Node's rect are those of its two children's rects, none *)
(* in both.                                                                *)
(***************************************************************************)
Partitions(parts, rect) ==
    /\ Cells(parts[1]) \cup Cells(parts[2]) = Cells(rect)
    /\ Cells(parts[1]) \cap Cells(parts[2]) = {}

RECURSIVE NodesPartitioned(_)
NodesPartitioned(t) ==
    t.kind = "Node" =>
        /\ Partitions(<<t.children[1].rect, t.children[2].rect>>, t.rect)
        /\ NodesPartitioned(t.children[1])
        /\ NodesPartitioned(t.children[2])

C10_ExactPartition ==
    /\ last.op = "split_horizontal" =>
          LET r == last.arg
              half == width(r) \div 2
          IN /\ last.ret[1].min = r.min
             /\ width(last.ret[1]) = half /\ height(last.ret[1]) = height(r)
             /\ last.ret[2].min = <<r.min[1] + half, r.min[2]>>
             /\ width(last.ret[2]) = width(r) - half
             /\ height(last.ret[2]) = height(r)
             /\ Partitions(last.ret, r)
    /\ last.op = "split_vertical" =>
          LET r == last.arg
              half == height(r) \div 2
          IN /\ last.ret[1].min = r.min
             /\ height(last.ret[1]) = half /\ width(last.ret[1]) = width(r)
             /\ last.ret[2].min = <<r.min[1], r.min[2] + half>>
             /\ height(last.ret[2]) = height(r) - half
             /\ width(last.ret[2]) = width(r)
             /\ Partitions(last.ret, r)
    /\ bit_img # None => NodesPartitioned(TheTree)

\* a rect of odd width away from the origin is split, with a tree of inner
\* nodes built
C10_Witness ==
    /\ last.op = "split_horizontal"
    /\ width(last.arg) = 5 /\ height(last.arg) = 3
    /\ last.arg.min = <<-1, 1>>
    /\ bit_img # None
    /\ TheTree.kind = "Node"
    /\ TheTree.children[2].kind = "Node"

(***************************************************************************)
(* C11  Split policy and leaf threshold: in every tree LayeredRect::new    *)
(* builds, a rect is a Leaf exactly when its width is at most 3 and its    *)
(* height is at most 3; a rect wider than 3 is split horizontally (also    *)
(* when it is higher than 3 too), and a rect is split vertically only when *)
(* its width is at most 3 and its height is more than 3; so every Leaf     *)
(* covers at most 9 pixels.  The 3 x 3 mask with the row-major bits        *)
(* [1,0,0,0,0,1,1,1,1] is one Leaf of count 5.                             *)
(***************************************************************************)
\* the two children lie side by side, each of the parent's height
SplitSideBySide(t) ==
    LET l == t.children[1].rect
        r == t.children[2].rect
    IN /\ height(l) = height(t.rect) /\ height(r) = height(t.rect)
       /\ l.min = t.rect.min /\ r.max = t.rect.max
       /\ l.max[1] = r.min[1]
       /\ width(l) < width(t.rect) /\ width(r) < width(t.rect)

\* the two children lie one above the other, each of the parent's width
SplitAbove(t) ==
    LET l == t.children[1].rect
        r == t.children[2].rect
    IN /\ width(l) = width(t.rect) /\ width(r) = width(t.rect)
       /\ l.min = t.rect.min /\ r.max = t.rect.max
       /\ l.max[2] = r.min[2]
       /\ height(l) < height(t.rect) /\ height(r) < height(t.rect)

RECURSIVE SplitPolicyHolds(_)
SplitPolicyHolds(t) ==
    LET w == width(t.rect)
        h == height(t.rect)
    IN /\ (t.kind = "Leaf") <=> (w <= 3 /\ h <= 3)
       /\ t.kind = "Leaf" => Cardinality(Cells(t.rect)) <= 9
       /\ t.kind = "Node" =>
             /\ w > 3 => SplitSideBySide(t)
             /\ SplitAbove(t) => (w <= 3 /\ h > 3)
             /\ (w <= 3 /\ h > 3) => SplitAbove(t)
             /\ SplitPolicyHolds(t.children[1])
             /\ SplitPolicyHolds(t.children[2])

C11_SplitPolicy ==
    bit_img # None =>
        /\ SplitPolicyHolds(TheTree)
        /\ img = LeafTestImage => TheTree = Leaf(from_min_size(0, 0, 3, 3), 5)

\* a tree over a rect wider and higher than 3: the root is split side by
\* side, its halves are split one above the other into leaves
C11_Witness ==
    /\ bit_img # None
    /\ width(TheTree.rect) > 3 /\ height(TheTree.rect) > 3
    /\ TheTree.kind = "Node"
    /\ TheTree.children[1].kind = "Node"
    /\ TheTree.children[1].children[2].kind = "Leaf"

(***************************************************************************)
(* C12  Bounded leaf fallback: when the descent of a query reaches a Leaf  *)
(* of non-zero count that intersects the query rect and is not contained   *)
(* in it, the scan of the mask it falls back to reads only positions       *)
(* inside the intersection of that Leaf's rect with the query rect, never  *)
(* positions of the query rect outside that Leaf.                          *)
(***************************************************************************)
C12_BoundedLeafFallback ==
    last.op = "BitImg::contains_pixel" =>
        \A s \in last.scans : s.reads \subseteq Cells(intersect(s.leaf, last.arg))

(***************************************************************************)
(* C3  Serializer round trip: for every image with width * height pixels   *)
(* (also of width or height 0), u8_to_img(img_to_u8(image)) has the same   *)
(* width, the same height and the same pixels in the same order.           *)
(***************************************************************************)
\* the length of the encoding of the image at hand
FullLen == 2 * USIZE_BYTE_LEN + img.size[1] * img.size[2] * COLOR_BYTE_LEN

C3_RoundTrip ==
    (last.op = "u8_to_img" /\ ValidImage(img) /\ Len(last.arg) = FullLen) =>
        /\ last.ret.kind = "Ok"
        /\ last.ret.val.size = img.size
        /\ last.ret.val.pixels = img.pixels

\* a buffer of more than one pixel, and of different pixels, is decoded
C3_Witness ==
    /\ last.op = "u8_to_img"
    /\ Len(last.arg) = FullLen
    /\ img.size = <<1, 2>>
    /\ img.pixels = <<MIXED, RED>>
    /\ last.ret.kind = "Ok"

(***************************************************************************)
(* C6  Decode validates length: for every buffer shorter than              *)
(* 2 * intSize + width * height * 4 bytes (also one shorter than the two   *)
(* header integers) decode fails with a DeserializeError value.            *)
(***************************************************************************)
C6_DecodeValidatesLength ==
    (last.op = "u8_to_img" /\ ValidImage(img) /\ Len(last.arg) < FullLen) =>
        last.ret.kind = "DeserializeError"

(***************************************************************************)
(* C4  Cache idempotence: with a cache-enabled loader, a load that misses  *)
(* (renders and stores) and a load that hits (decodes the stored entry)    *)
(* both return the image load_svg_bytes(sourceBytes, scale) returns, so    *)
(* two loads in a row return the same image; also with entries of other    *)
(* (sourceBytes, scale) pairs in the store.                                *)
(***************************************************************************)
C4_CacheIdempotence ==
    (last.op = "load" /\ last.arg.cache) =>
        /\ last.ret.val = load_svg_bytes(last.arg.svg_bytes, last.arg.scale)
        /\ last.arg.before # None => last.ret.val = last.arg.before[1]

\* the second of two loads in a row: a hit that returns an image, with the
\* entry of the same document at the other scale in the store
C4_Witness ==
    /\ last.op = "load" /\ last.arg.cache
    /\ last.arg.before # None
    /\ ~ last.ret.called
    /\ last.ret.val.kind = "Ok"
    /\ \E s \in Scales \ {last.arg.scale} : HasEntry(store, hex_str(s, last.arg.svg_bytes))

=============================================================================
